---- MODULE Spec2Model ----
(***************************************************************************)
(* The rotating log writer of portfolio/logger (Logger in logger.go): the  *)
(* mutex-guarded writer, its rotation engine, the backup naming resolver,  *)
(* the compression worker and the retention sweeper, over an abstract log  *)
(* directory and an abstract clock.                                        *)
(***************************************************************************)
EXTENDS Integers, Sequences, FiniteSets, Bags, TLC

(* ------------------------------ bounds -------------------------------- *)

\* API calls (write, Rotate, Close, Printf) issued in one run.
MaxCalls == 3
\* Longest message, in bytes.
MaxLen == 2
\* Clock ticks (the clock's unit is one second) in one run.
MaxTime == 2
\* Seconds per calendar day of the scaled clock.
DayLen == 2
\* Requests the rate limiter receives in one run.
MaxRequests == 2
\* Clock ticks of the rate limiter (its unit is one minute) in one run.
MaxMinutes == 6

(* ------------------------------ state --------------------------------- *)

VARIABLES
    \* Logger fields (type Logger)
    file,          \* l.file: "nil", "open", or "closed" (non-nil, closed)
    currentSize,   \* l.currentSize
    currentDate,   \* l.currentDate, a day number (time truncated to 24h, UTC)
    dailyTimer,    \* l.dailyTimer: "nil" or "set"
    mu,            \* l.mu: Free or the goroutine holding it
    \* configuration, fixed at construction
    maxSize, maxBackups, maxAge, compress, rotateDaily,
    \* environment
    budget,        \* API calls the callers issue in this run
    now,           \* the clock, in seconds
    tz,            \* offset of local time from UTC, in seconds
    fs,            \* the log directory: path -> [content, mtime]
    \* goroutines
    pc,            \* position of each caller goroutine and of the scheduler
    msg,           \* the message a caller is writing
    ret,           \* where rotate returns to: "w_append" (write) or "idle"
    timer,         \* the scheduler's timer object: [target, stopped]
    tasks,         \* background goroutines started by rotate: compress, sweep
    \* history
    calls,         \* API calls issued so far
    nextId,        \* next message id
    landed,        \* ids of the messages that reached a file
    dropped,       \* ids of the messages printed to a closed sink
    rotSeq,        \* renames done by rotate so far
    closedAt,      \* nextId when Close first returned, or 0
    swept,         \* the passes of the retention sweeper that removed a file
    sweptPaths,    \* the paths the retention sweeper removed
    lastBackup,    \* the path of the last rename done by rotate
    closeErr,      \* what the last Close returned: "none", "nil" or "error"
    emptyRot,      \* the backup paths a 0-byte active file was renamed to
    failedAt,      \* nextId when a reopen in rotate first failed, or 0
    rotDay,        \* local day of the last rename done in daily mode, or -1
    \* RateLimiter fields (type RateLimiter, rate_limit.go)
    visitors,      \* rl.visitors: address -> the visitor it points to
    cleanupTimer,  \* rl.cleanupTimer: [target, stopped], or NoTimer for nil
    rlLogger,      \* rl.logger: "nil" or "set"
    \* the heap and the clock of the rate limiter
    heap,          \* visitor objects: [closed, len] of limiter, and lastSeen
    minute,        \* time.Now() of the rate limiter, in minutes
    \* goroutines of the rate limiter
    hpc,           \* position of each request handler
    hreq,          \* the request a handler serves: [ip, v]
    releases,      \* pending time.AfterFunc(rl.rate, ...) callbacks
    \* history of the rate limiter
    requests,      \* requests received so far
    debugs         \* the counts cleanup has reported with logger.Debug
vars == <<file, currentSize, currentDate, dailyTimer, mu, maxSize, maxBackups,
          maxAge, compress, rotateDaily, budget, now, tz, fs, pc, msg, ret,
          timer, tasks, calls, nextId, landed, dropped, rotSeq, closedAt, swept,
          sweptPaths, lastBackup, closeErr, emptyRot, failedAt, rotDay,
          visitors, cleanupTimer, rlLogger, heap, minute, hpc, hreq, releases,
          requests, debugs>>

cfg == <<maxSize, maxBackups, maxAge, compress, rotateDaily, tz, budget>>
sweeps == <<swept, sweptPaths>>
limiter == <<visitors, cleanupTimer, rlLogger, heap, minute, hpc, hreq,
             releases, requests, debugs>>
\* What no step of the logger changes: its configuration, the rate limiter.
env == <<cfg, limiter>>
hist == <<calls, nextId, landed, dropped, closedAt, sweeps>>
aux == <<closeErr, emptyRot, failedAt, rotDay>>
NoPath == [k |-> "none", d |-> 0, n |-> 0, gz |-> FALSE]

Callers == {"c1", "c2"}
Sched == "sched"
Free == "free"
NoMsg == [id |-> 0, len |-> 0, err |-> FALSE]

(* ------------------------------ time ---------------------------------- *)

\* time.Now().Truncate(24 * time.Hour): Truncate works on absolute time, so
\* the day it yields is the UTC day.
UTCDay(t) == t \div DayLen
\* time.Now().Format("2006-01-02") and the prefix of a log line: local date.
LocalDay(t) == (t + tz) \div DayLen

(* --------------------------- log directory ---------------------------- *)

LogPath == [k |-> "log", d |-> 0, n |-> 0, gz |-> FALSE]
BasePath(d) == [k |-> "base", d |-> d, n |-> 0, gz |-> FALSE]
NumberedPath(d, i) == [k |-> "num", d |-> d, n |-> i, gz |-> FALSE]
PrecisePath(t) == [k |-> "ts", d |-> LocalDay(t), n |-> t + tz, gz |-> FALSE]
Gz(p) == [p EXCEPT !.gz = TRUE]

Exists(p) == p \in DOMAIN fs
Backups == {p \in DOMAIN fs : p.k # "log"}

RECURSIVE SumLen(_)
SumLen(lines) ==
    IF lines = <<>> THEN 0
    ELSE IF Len(lines) = 1 THEN lines[1].len
    ELSE LET h == Len(lines) \div 2
         IN  SumLen(SubSeq(lines, 1, h))
                + SumLen(SubSeq(lines, h + 1, Len(lines)))
\* info.Size(): every line carries its message and the newline Print adds.
LineOverhead == 1
FileSize(f) == SumLen(f.content) + Len(f.content) * LineOverhead

Remove(p) == [q \in DOMAIN fs \ {p} |-> fs[q]]

Min(a, b) == IF a < b THEN a ELSE b

(* ------------------------------ float32 ------------------------------- *)

\* currentSize and maxSize are float32: 24 significant bits.
significandBits == 24

\* The distance between neighbouring float32 values around x >= 0.
RECURSIVE Ulp(_)
Ulp(x) == IF x < 2 ^ significandBits THEN 1 ELSE 2 * Ulp(x \div 2)

\* float32(x), and the result of a float32 operation whose exact value is
\* x: the nearest representable value, ties to the even significand.
F32(x) ==
    LET u == Ulp(x)
        q == x \div u
        r == x % u
    IN  IF 2 * r < u \/ (2 * r = u /\ q % 2 = 0) THEN q * u
        ELSE (q + 1) * u

(* ----------------------- backup naming resolver ----------------------- *)

\* fileExists in directory dir: the plain path, or with compression its .gz
\* sibling.
fileExists(dir, p) == p \in DOMAIN dir \/ (compress /\ Gz(p) \in DOMAIN dir)

\* maxAttempts of getBackupPath: maxBackups, or 10 when that is not positive.
maxAttempts == IF maxBackups <= 0 THEN 10 ELSE maxBackups

\* getBackupPath(timestamp) over directory dir at time t: <name>-<date>, then
\* <name>-<date>-001 up to maxAttempts, then <name>-<t to the second>, which
\* is returned without a check.
getBackupPath(dir, t, d) ==
    IF ~fileExists(dir, BasePath(d)) THEN BasePath(d)
    ELSE LET free == {i \in 1..maxAttempts :
                         ~fileExists(dir, NumberedPath(d, i))}
         IN  IF free # {}
             THEN NumberedPath(d, CHOOSE i \in free : \A j \in free : i <= j)
             ELSE PrecisePath(t)

(* ----------------------- content date inferencer ---------------------- *)

NoDate == -1
maxLinesToCheck == 1000

\* bufio.MaxScanTokenSize: the largest line, newline included, that the
\* bufio.Scanner of analyzeFileContentForTimestamp returns.
maxScanTokenSize == 65536

\* analyzeFileContentForTimestamp: the day of the last line, among the lines
\* scanner.Scan() returns before lineCount reaches maxLinesToCheck, whose
\* prefix parses as a time; NoDate ("") when the file is missing or no line
\* parses. Scan returns false at end of file and at the first line longer
\* than the scanner's buffer, so the loop sees no line after such a line.
analyzeFileContentForTimestamp ==
    IF ~Exists(LogPath) THEN NoDate
    ELSE LET all == fs[LogPath].content
             tooLong == {i \in 1..Len(all) :
                            all[i].len + LineOverhead > maxScanTokenSize}
             scanned == IF tooLong = {} THEN Len(all)
                        ELSE (CHOOSE i \in tooLong :
                                 \A j \in tooLong : i <= j) - 1
             lines == SubSeq(all, 1, Min(maxLinesToCheck, scanned))
             IsStamped(l) == l.day # NoDate
             stamped == SelectSeq(lines, IsStamped)
         IN  IF stamped = <<>> THEN NoDate ELSE stamped[Len(stamped)].day

(* --------------------------- rotation engine -------------------------- *)

\* A size check that never rotates an empty file.
needsRotationNonEmpty(messageSize) ==
    currentSize > 0 /\ maxSize > 0 /\ currentSize + messageSize > maxSize

\* needsRotationUnsafe with the date conditions left out.
needsRotationSizeOnly(messageSize) ==
    maxSize > 0 /\ currentSize + messageSize > maxSize

\* needsRotationUnsafe(messageSize)
needsRotationUnsafe(messageSize) ==
    LET sizeRotation ==
            maxSize > 0 /\ F32(currentSize + F32(messageSize)) > maxSize
        today == UTCDay(now)
        dateChanged == today # currentDate
        \* l.file.Stat() fails on a closed handle; the check is then skipped
        staleFile == /\ ~dateChanged
                     /\ file = "open"
                     /\ Exists(LogPath)
                     /\ UTCDay(fs[LogPath].mtime) # today
        dateRotation == rotateDaily /\ (dateChanged \/ staleFile)
    IN  sizeRotation \/ dateRotation

\* go l.compressFile(backupPath) and go l.cleanOldLogs(): a new goroutine.
\* The goroutines are kept as a bag: two of them in the same position are
\* not told apart.
CompressTask(p) == [kind |-> "compress", path |-> p, pc |-> "open",
                    input |-> <<>>, list |-> <<>>]
SweepTask == [kind |-> "sweep", path |-> LogPath, pc |-> "glob",
              input |-> <<>>, list |-> <<>>]
Spawn(t) == tasks (+) SetToBag({t})
Exit(t) == tasks (-) SetToBag({t})
Replace(t, u) == (tasks (-) SetToBag({t})) (+) SetToBag({u})
Running == BagToSet(tasks)

\* rotate entered without l.mu.Lock(): the handle is closed and cleared while
\* the mutex is left as it was.
RotateLockNoMutex(p) ==
    /\ pc[p] = "r_lock"
    /\ file' = "nil"
    /\ pc' = [pc EXCEPT ![p] = "r_rename"]
    /\ UNCHANGED <<currentSize, currentDate, dailyTimer, mu, env, now, fs, msg,
                   ret, timer, tasks, hist, rotSeq, lastBackup, aux>>

\* rotate, lines 261-272: take the lock, sync and close the handle.
RotateLock(p) ==
    /\ pc[p] = "r_lock"
    /\ mu = Free
    /\ mu' = p
    /\ file' = "nil"
    /\ pc' = [pc EXCEPT ![p] = "r_rename"]
    /\ UNCHANGED <<currentSize, currentDate, dailyTimer, env, now, fs, msg,
                   ret, timer, tasks, hist, rotSeq, lastBackup, aux>>

\* The timestamp rotate names the backup with (lines 274-280).
rotateTimestamp ==
    LET contentTimestamp == analyzeFileContentForTimestamp
    IN  IF rotateDaily /\ contentTimestamp # NoDate THEN contentTimestamp
        ELSE LocalDay(now)

\* os.Rename(l.logPath, backupPath): the destination is replaced if it exists.
Rename(dir, to) == [q \in (DOMAIN dir \ {LogPath}) \cup {to} |->
                       IF q = to THEN dir[LogPath] ELSE dir[q]]

\* rotate, lines 274-290: name the backup, rename, start the compression.
RotateRename(p) ==
    /\ pc[p] = "r_rename"
    /\ Exists(LogPath)
    /\ LET backupPath == getBackupPath(fs, now, rotateTimestamp)
       IN  /\ fs' = Rename(fs, backupPath)
           /\ lastBackup' = backupPath
           /\ emptyRot' = IF FileSize(fs[LogPath]) = 0
                          THEN emptyRot \cup {backupPath}
                          ELSE emptyRot
           /\ tasks' = IF compress THEN Spawn(CompressTask(backupPath))
                       ELSE tasks
    /\ rotSeq' = rotSeq + 1
    /\ rotDay' = IF rotateDaily THEN LocalDay(now) ELSE rotDay
    /\ pc' = [pc EXCEPT ![p] = "r_reopen"]
    /\ UNCHANGED <<file, currentSize, currentDate, dailyTimer, mu, env, now,
                   msg, ret, timer, hist, closeErr, failedAt>>

\* openLogFileUnsafe after os.OpenFile succeeded: the file is created when
\* absent; size and date are read back from its stat.
openLogFileUnsafe ==
    LET f == IF Exists(LogPath) THEN fs[LogPath]
             ELSE [content |-> <<>>, mtime |-> now]
    IN  /\ fs' = (LogPath :> f) @@ fs
        /\ file' = "open"
        /\ currentSize' = F32(FileSize(f))
        /\ currentDate' = IF FileSize(f) > 0 THEN UTCDay(f.mtime)
                          ELSE UTCDay(now)

\* rotate, lines 292-303: reset the counters, reopen, start the sweep, unlock.
RotateReopen(p) ==
    /\ pc[p] = "r_reopen"
    /\ openLogFileUnsafe
    /\ tasks' = Spawn(SweepTask)
    /\ mu' = Free
    /\ pc' = [pc EXCEPT ![p] = ret[p]]
    /\ UNCHANGED <<dailyTimer, env, now, msg, ret, timer, hist, rotSeq,
                   lastBackup, aux>>

\* The error rotate returns, which write logs (lines 243-245).
ReturnErr(p) == IF ret[p] = "w_append" THEN [msg EXCEPT ![p].err = TRUE]
                ELSE msg

\* rotate returning the rename error without releasing l.mu.
RotateRenameFailLocked(p) ==
    /\ pc[p] = "r_rename"
    /\ pc' = [pc EXCEPT ![p] = ret[p]]
    /\ msg' = ReturnErr(p)
    /\ UNCHANGED <<file, currentSize, currentDate, dailyTimer, mu, env, now, fs,
                   ret, timer, tasks, hist, rotSeq, lastBackup, aux>>

\* rotate, lines 284-286: os.Rename fails (the active file is missing, or the
\* system refuses); rotate returns the error with the handle left nil.
RotateRenameFail(p) ==
    /\ pc[p] = "r_rename"
    /\ mu' = Free
    /\ pc' = [pc EXCEPT ![p] = ret[p]]
    /\ msg' = ReturnErr(p)
    /\ UNCHANGED <<file, currentSize, currentDate, dailyTimer, env, now, fs,
                   ret, timer, tasks, hist, rotSeq, lastBackup, aux>>

\* rotate, lines 292-299: os.OpenFile fails after the rename; the counters
\* were reset, the handle stays nil and no sweep is started.
RotateReopenFail(p) ==
    /\ pc[p] = "r_reopen"
    /\ currentSize' = 0
    /\ currentDate' = IF rotateDaily THEN UTCDay(now) ELSE currentDate
    /\ mu' = Free
    /\ pc' = [pc EXCEPT ![p] = ret[p]]
    /\ msg' = ReturnErr(p)
    /\ failedAt' = IF failedAt = 0 THEN nextId ELSE failedAt
    /\ UNCHANGED <<file, dailyTimer, env, now, fs, ret, timer, tasks, hist,
                   rotSeq, lastBackup, closeErr, emptyRot, rotDay>>

(* ----------------------------- logger facade -------------------------- *)

\* l.Print(message): log.Logger writes one line, stamped with the local time,
\* to the handle it was built on; the write fails, and Print ignores the
\* error, when that handle is closed.
logPrint(m) ==
    IF file = "open" /\ Exists(LogPath)
    THEN /\ fs' = [fs EXCEPT ![LogPath] =
                     [content |-> Append(@.content,
                                    [id |-> m.id, len |-> m.len,
                                     day |-> LocalDay(now)]),
                      mtime |-> now]]
         /\ landed' = landed \cup {m.id}
         /\ UNCHANGED dropped
    ELSE /\ dropped' = dropped \cup {m.id}
         /\ UNCHANGED <<fs, landed>>

\* A caller enters Info/Warn/Error/Debug/HTTP with a message of n bytes.
CallWrite(c, n) ==
    /\ pc[c] = "idle"
    /\ calls < budget
    /\ msg' = [msg EXCEPT ![c] = [id |-> nextId, len |-> n, err |-> FALSE]]
    /\ nextId' = nextId + 1
    /\ calls' = calls + 1
    /\ pc' = [pc EXCEPT ![c] = "w_check"]
    /\ UNCHANGED <<file, currentSize, currentDate, dailyTimer, mu, env, now, fs,
                   ret, timer, tasks, landed, dropped, rotSeq, lastBackup, aux,
                   closedAt, sweeps>>

\* write, lines 242-246: needsRotation under the lock, then rotate if due.
WriteCheck(c) ==
    /\ pc[c] = "w_check"
    /\ mu = Free
    /\ IF needsRotationUnsafe(msg[c].len)
       THEN /\ pc' = [pc EXCEPT ![c] = "r_lock"]
            /\ ret' = [ret EXCEPT ![c] = "w_append"]
       ELSE /\ pc' = [pc EXCEPT ![c] = "w_append"]
            /\ UNCHANGED ret
    /\ UNCHANGED <<file, currentSize, currentDate, dailyTimer, mu, env, now, fs,
                   msg, timer, tasks, hist, rotSeq, lastBackup, aux>>

\* write, lines 248-251: print and count the message under the lock.
WriteAppend(c) ==
    /\ pc[c] = "w_append"
    /\ mu = Free
    /\ logPrint(msg[c])
    /\ currentSize' = F32(currentSize + F32(msg[c].len))
    /\ msg' = [msg EXCEPT ![c] = NoMsg]
    /\ pc' = [pc EXCEPT ![c] = "idle"]
    /\ UNCHANGED <<file, currentDate, dailyTimer, mu, env, now, ret, timer,
                   tasks, calls, nextId, rotSeq, lastBackup, aux, closedAt,
                   sweeps>>

\* Rotate / ForceRotation: rotate on demand.
CallRotate(c) ==
    /\ pc[c] = "idle"
    /\ calls < budget
    /\ calls' = calls + 1
    /\ pc' = [pc EXCEPT ![c] = "r_lock"]
    /\ ret' = [ret EXCEPT ![c] = "idle"]
    /\ UNCHANGED <<file, currentSize, currentDate, dailyTimer, mu, env, now, fs,
                   msg, timer, tasks, nextId, landed, dropped, rotSeq,
                   lastBackup, aux, closedAt, sweeps>>

\* Close: stop and clear the timer, close the handle (l.file stays non-nil).
Close(c) ==
    /\ pc[c] = "idle"
    /\ calls < budget
    /\ mu = Free
    /\ calls' = calls + 1
    /\ IF dailyTimer # "nil"
       THEN /\ timer' = [timer EXCEPT !.stopped = TRUE]
            /\ dailyTimer' = "nil"
       ELSE UNCHANGED <<timer, dailyTimer>>
    /\ file' = IF file # "nil" THEN "closed" ELSE file
    \* return l.file.Close(): closing a closed *os.File is an error
    /\ closeErr' = IF file = "closed" THEN "error" ELSE "nil"
    /\ closedAt' = IF closedAt = 0 THEN nextId ELSE closedAt
    /\ UNCHANGED <<currentSize, currentDate, mu, env, now, fs, pc, msg, ret,
                   tasks, nextId, landed, dropped, rotSeq, lastBackup, sweeps,
                   emptyRot, failedAt, rotDay>>

\* A caller enters GetRotationInfo, CheckRotationStatus or GetBackupFiles.
QueryOps == {"GetRotationInfo", "CheckRotationStatus", "GetBackupFiles"}
CallQuery(c, op) ==
    /\ pc[c] = "idle"
    /\ calls < budget
    /\ calls' = calls + 1
    /\ pc' = [pc EXCEPT ![c] = op]
    /\ UNCHANGED <<file, currentSize, currentDate, dailyTimer, mu, env, now, fs,
                   msg, ret, timer, tasks, nextId, landed, dropped, rotSeq,
                   lastBackup, aux, closedAt, sweeps>>

\* The body of a query: l.mu.Lock(), defer l.mu.Unlock(), reads only.
Query(c, op) ==
    /\ pc[c] = op
    /\ mu = Free
    /\ pc' = [pc EXCEPT ![c] = "idle"]
    /\ UNCHANGED <<file, currentSize, currentDate, dailyTimer, mu, env, now, fs,
                   msg, ret, timer, tasks, hist, rotSeq, lastBackup, aux>>

\* GetRotationInfo: the configuration and the counters, under the lock.
GetRotationInfo(c) == Query(c, "GetRotationInfo")

\* CheckRotationStatus: under the lock, with needsRotationUnsafe(0), which
\* takes no lock.
CheckRotationStatus(c) == Query(c, "CheckRotationStatus")

\* GetBackupFiles: glob and stat of the backups under the lock;
\* shouldKeepFile takes no lock.
GetBackupFiles(c) == Query(c, "GetBackupFiles")

\* Printf / Println, promoted from the embedded *log.Logger and called by the
\* HTTP middlewares and the repositories on the shared Logger: the caller
\* reads l.Logger and prints through it without taking l.mu.
CallPrintf(c, n) ==
    /\ pc[c] = "idle"
    /\ calls < budget
    /\ msg' = [msg EXCEPT ![c] = [id |-> nextId, len |-> n, err |-> FALSE]]
    /\ nextId' = nextId + 1
    /\ calls' = calls + 1
    /\ pc' = [pc EXCEPT ![c] = "printf"]
    /\ UNCHANGED <<file, currentSize, currentDate, dailyTimer, mu, env, now, fs,
                   ret, timer, tasks, landed, dropped, rotSeq, lastBackup, aux,
                   closedAt, sweeps>>

Printf(c) ==
    /\ pc[c] = "printf"
    /\ logPrint(msg[c])
    /\ msg' = [msg EXCEPT ![c] = NoMsg]
    /\ pc' = [pc EXCEPT ![c] = "idle"]
    /\ UNCHANGED <<file, currentSize, currentDate, dailyTimer, mu, env, now,
                   ret, timer, tasks, calls, nextId, rotSeq, lastBackup, aux,
                   closedAt, sweeps>>

(* ----------------------- daily rotation scheduler --------------------- *)

\* startDailyRotationTimer, lines 608-618: arm a timer for the next local
\* midnight, under the lock.
SchedArm ==
    /\ pc[Sched] = "s_arm"
    /\ mu = Free
    /\ timer' = [target |-> LocalDay(now) + 1, stopped |-> FALSE]
    /\ dailyTimer' = "set"
    /\ pc' = [pc EXCEPT ![Sched] = "s_wait"]
    /\ UNCHANGED <<file, currentSize, currentDate, mu, env, now, fs, msg, ret,
                   tasks, hist, rotSeq, lastBackup, aux>>

\* <-timer.C: a stopped timer never fires.
SchedFire ==
    /\ pc[Sched] = "s_wait"
    /\ ~timer.stopped
    /\ LocalDay(now) >= timer.target
    /\ pc' = [pc EXCEPT ![Sched] = "s_check"]
    /\ UNCHANGED <<file, currentSize, currentDate, dailyTimer, mu, env, now, fs,
                   msg, ret, timer, tasks, hist, rotSeq, lastBackup, aux>>

\* A loop that re-arms when the timer fires, without calling rotate.
SchedCheckNoRotate ==
    /\ pc[Sched] = "s_check"
    /\ mu = Free
    /\ pc' = [pc EXCEPT ![Sched] = IF dailyTimer = "nil" THEN "s_exit"
                                   ELSE "s_arm"]
    /\ UNCHANGED <<file, currentSize, currentDate, dailyTimer, mu, env, now, fs,
                   msg, ret, timer, tasks, hist, rotSeq, lastBackup, aux>>

\* lines 622-629: leave the loop if the timer was cleared, else rotate.
SchedCheck ==
    /\ pc[Sched] = "s_check"
    /\ mu = Free
    /\ IF dailyTimer = "nil"
       THEN /\ pc' = [pc EXCEPT ![Sched] = "s_exit"]
            /\ UNCHANGED ret
       ELSE /\ pc' = [pc EXCEPT ![Sched] = "r_lock"]
            /\ ret' = [ret EXCEPT ![Sched] = "s_arm"]
    /\ UNCHANGED <<file, currentSize, currentDate, dailyTimer, mu, env, now, fs,
                   msg, timer, tasks, hist, rotSeq, lastBackup, aux>>

(* --------------------------- compression worker ----------------------- *)

loggerVars == <<file, currentSize, currentDate, dailyTimer, mu, env, pc, msg,
                ret, timer, calls, nextId, landed, dropped, closedAt, rotSeq,
                lastBackup, aux>>

\* compressFile, lines 429-450: open the source and stat it; give up when it
\* is missing or empty. The open descriptor keeps the file's content even if
\* the path is later removed or replaced.
CompressOpen(t) ==
    /\ t \in Running /\ t.kind = "compress" /\ t.pc = "open"
    /\ IF Exists(t.path) /\ FileSize(fs[t.path]) > 0
       THEN tasks' = Replace(t, [t EXCEPT !.pc = "create",
                                          !.input = fs[t.path].content])
       ELSE tasks' = Exit(t)
    /\ UNCHANGED <<loggerVars, now, fs, sweeps>>

\* lines 452-464: os.Create(filePath + ".gz") creates or truncates the sibling.
CompressCreate(t) ==
    /\ t \in Running /\ t.kind = "compress" /\ t.pc = "create"
    /\ fs' = (Gz(t.path) :> [content |-> <<>>, mtime |-> now]) @@ fs
    /\ tasks' = Replace(t, [t EXCEPT !.pc = "copy"])
    /\ UNCHANGED <<loggerVars, now, sweeps>>

\* lines 471-485: io.Copy, finalize and close; the bytes go to the file that
\* was created, which is the .gz sibling as long as nothing removed it.
CompressCopy(t) ==
    /\ t \in Running /\ t.kind = "compress" /\ t.pc = "copy"
    /\ fs' = IF Exists(Gz(t.path))
             THEN [fs EXCEPT ![Gz(t.path)] =
                       [content |-> t.input, mtime |-> now]]
             ELSE fs
    /\ tasks' = Replace(t, [t EXCEPT !.pc = "remove"])
    /\ UNCHANGED <<loggerVars, now, sweeps>>

\* lines 452-485: os.Create, io.Copy, gzWriter.Close or output.Close fails;
\* compressFile logs the error and returns, leaving the original and whatever
\* the .gz holds so far (nothing yet in this model, where the copy is one step).
CompressFail(t) ==
    /\ t \in Running /\ t.kind = "compress" /\ t.pc \in {"create", "copy"}
    /\ tasks' = Exit(t)
    /\ UNCHANGED <<loggerVars, now, fs, sweeps>>

\* compressFile returning without os.Remove(filePath).
CompressKeepOriginal(t) ==
    /\ t \in Running /\ t.kind = "compress" /\ t.pc = "remove"
    /\ tasks' = Exit(t)
    /\ UNCHANGED <<loggerVars, now, fs, sweeps>>

\* lines 487-489: os.Remove(filePath); a missing file is not an error.
CompressRemove(t) ==
    /\ t \in Running /\ t.kind = "compress" /\ t.pc = "remove"
    /\ fs' = Remove(t.path)
    /\ tasks' = Exit(t)
    /\ UNCHANGED <<loggerVars, now, sweeps>>

(* ---------------------------- retention sweeper ----------------------- *)

RECURSIVE SeqOf(_)
\* The sequences that list every element of a finite set once.
SeqOf(S) == IF S = {} THEN {<<>>}
            ELSE UNION {{<<x>> \o r : r \in SeqOf(S \ {x})} : x \in S}

Range(q) == {q[i] : i \in 1..Len(q)}
RemoveAll(S) == [q \in DOMAIN fs \ S |-> fs[q]]

\* cleanOldLogs globbing <name>* instead of <name>-*: every file of the
\* directory is listed, the active one included.
SweepGlobAll(t) ==
    /\ t \in Running /\ t.kind = "sweep" /\ t.pc = "glob"
    /\ LET logFiles == {p \in DOMAIN fs : ~(p.gz /\ FileSize(fs[p]) = 0)}
           q == CHOOSE r \in SeqOf(logFiles) : TRUE
       IN  tasks' = Replace(t, [t EXCEPT !.pc = "count", !.list = q])
    /\ UNCHANGED <<loggerVars, now, fs, sweeps>>

\* cleanOldLogs, lines 497-512: glob <name>-*, leaving out the .gz files of
\* size zero.
SweepGlob(t) ==
    /\ t \in Running /\ t.kind = "sweep" /\ t.pc = "glob"
    /\ LET logFiles == {p \in Backups : ~(p.gz /\ FileSize(fs[p]) = 0)}
           \* one listing of the matches; the sort decides the order that counts
           q == CHOOSE r \in SeqOf(logFiles) : TRUE
       IN  tasks' = Replace(t, [t EXCEPT !.pc = "count", !.list = q])
    /\ UNCHANGED <<loggerVars, now, fs, sweeps>>

\* sort.Slice by modification time, newest first (lines 514-521). The
\* comparison stats both files and answers false when either stat fails, so
\* the order is decided only when every listed file still exists.
SortedNewestFirst(q, listed) ==
    /\ Range(q) = listed /\ Len(q) = Cardinality(listed)
    /\ (\A p \in listed : Exists(p)) =>
          \A i, j \in 1..Len(q) : i < j => fs[q[i]].mtime >= fs[q[j]].mtime

\* lines 514-532: sort, then remove every file past the first maxBackups.
SweepCount(t) ==
    /\ t \in Running /\ t.kind = "sweep" /\ t.pc = "count"
    /\ \E q \in SeqOf(Range(t.list)) :
         /\ SortedNewestFirst(q, Range(t.list))
         /\ IF maxBackups > 0 /\ Len(q) > maxBackups
            THEN /\ fs' = RemoveAll({q[i] : i \in (maxBackups + 1)..Len(q)})
                 /\ tasks' = Replace(t, [t EXCEPT !.pc = "age",
                                          !.list = SubSeq(q, 1, maxBackups)])
            ELSE /\ fs' = fs
                 /\ tasks' = Replace(t, [t EXCEPT !.pc = "age", !.list = q])
    /\ swept' = IF DOMAIN fs' # DOMAIN fs THEN swept \cup {"count"} ELSE swept
    /\ sweptPaths' = sweptPaths \cup (DOMAIN fs \ DOMAIN fs')
    /\ UNCHANGED <<loggerVars, now>>

\* A cutoff one day too early: time.Now().AddDate(0, 0, -maxAge-1)
CutoffDayEarly == now - (maxAge + 1) * DayLen

\* time.Now().AddDate(0, 0, -maxAge)
Cutoff == now - maxAge * DayLen

\* lines 534-551: of the files kept, remove those modified before the cutoff.
SweepAge(t) ==
    /\ t \in Running /\ t.kind = "sweep" /\ t.pc = "age"
    /\ fs' = IF maxAge > 0
             THEN RemoveAll({p \in Range(t.list) :
                               Exists(p) /\ fs[p].mtime < Cutoff})
             ELSE fs
    /\ tasks' = Exit(t)
    /\ swept' = IF DOMAIN fs' # DOMAIN fs THEN swept \cup {"age"} ELSE swept
    /\ sweptPaths' = sweptPaths \cup (DOMAIN fs \ DOMAIN fs')
    /\ UNCHANGED <<loggerVars, now>>

(* ------------------- rate limiter (RateLimiter, rate_limit.go) --------- *)

Handlers == {"h1", "h2"}
IPs == {"a", "b"}
NoReq == [ip |-> "none", v |-> 0]
\* A timer that is nil, stopped or has fired: it will not fire.
NoTimer == [target |-> 0, live |-> FALSE]

\* The arguments of NewRateLimiter (time.Second and 10 in migration.go):
\* the rate in whole minutes, the limit scaled to the two handlers.
rate == 0
limit == 1
\* time.AfterFunc(5*time.Minute, ...) in scheduleCleanup
cleanupPeriod == 5
\* time.Since(v.lastSeen) > 3*time.Minute in cleanup
inactiveAfter == 3

\* What no step of the rate limiter changes: the logger and its directory.
logState == <<file, currentSize, currentDate, dailyTimer, mu, cfg, now, fs, pc,
              msg, ret, timer, tasks, hist, rotSeq, lastBackup, aux>>

\* NewRateLimiter, lines 27-36: no visitor, no timer, no logger.
NewRateLimiter ==
    /\ visitors = [ip \in {} |-> 0]
    /\ cleanupTimer = NoTimer
    /\ rlLogger = "nil"
    /\ heap = <<>>
    /\ minute = 0
    /\ hpc = [h \in Handlers |-> "idle"]
    /\ hreq = [h \in Handlers |-> NoReq]
    /\ releases = EmptyBag
    /\ requests = 0
    /\ debugs = <<>>

\* SetLogger, lines 38-42.
SetLogger ==
    /\ rlLogger = "nil"
    /\ rlLogger' = "set"
    /\ UNCHANGED <<logState, visitors, cleanupTimer, heap, minute, hpc, hreq,
                   releases, requests, debugs>>

\* scheduleCleanup, lines 44-51: the timer there is is stopped and replaced
\* by one that fires cleanup five minutes from now.
scheduleCleanup == [target |-> minute + cleanupPeriod, live |-> TRUE]

\* cleanup, lines 53-72, run by the timer with rl.mu held throughout: every
\* visitor not seen for three minutes has its channel closed and its entry
\* deleted; the timer is started again when entries remain; the number of
\* entries removed is reported when there is a logger.
cleanup ==
    /\ cleanupTimer.live /\ minute >= cleanupTimer.target
    /\ LET old == {ip \in DOMAIN visitors :
                     minute - heap[visitors[ip]].lastSeen > inactiveAfter}
           kept == DOMAIN visitors \ old
       IN  /\ heap' = [v \in DOMAIN heap |->
                         IF \E ip \in old : visitors[ip] = v
                         THEN [heap[v] EXCEPT !.closed = TRUE]
                         ELSE heap[v]]
           /\ visitors' = [ip \in kept |-> visitors[ip]]
           /\ cleanupTimer' = IF kept # {} THEN scheduleCleanup ELSE NoTimer
           /\ debugs' = IF rlLogger # "nil" /\ old # {}
                        THEN Append(debugs, Cardinality(old))
                        ELSE debugs
    /\ UNCHANGED <<logState, rlLogger, minute, hpc, hreq, releases, requests>>

\* Middleware, lines 75-76: a request from address ip reaches a handler.
Request(h, ip) ==
    /\ hpc[h] = "idle" /\ requests < MaxRequests
    /\ hpc' = [hpc EXCEPT ![h] = "lookup"]
    /\ hreq' = [hreq EXCEPT ![h] = [ip |-> ip, v |-> 0]]
    /\ requests' = requests + 1
    /\ UNCHANGED <<logState, visitors, cleanupTimer, rlLogger, heap, minute,
                   releases, debugs>>

\* Middleware, lines 78-82: the entry of the address is read under the read
\* lock, which is released before the entry is used.
Lookup(h) ==
    /\ hpc[h] = "lookup"
    /\ IF hreq[h].ip \in DOMAIN visitors
       THEN /\ hreq' = [hreq EXCEPT ![h].v = visitors[hreq[h].ip]]
            /\ hpc' = [hpc EXCEPT ![h] = "send"]
       ELSE /\ hpc' = [hpc EXCEPT ![h] = "insert"]
            /\ UNCHANGED hreq
    /\ UNCHANGED <<logState, visitors, cleanupTimer, rlLogger, heap, minute,
                   releases, requests, debugs>>

\* Middleware, lines 83-96, with rl.mu held throughout: the entry is read
\* again and created when it is still missing; the first entry of the map
\* starts the cleanup timer.
Insert(h) ==
    /\ hpc[h] = "insert"
    /\ LET ip == hreq[h].ip
           id == Len(heap) + 1
       IN  IF ip \in DOMAIN visitors
           THEN /\ hreq' = [hreq EXCEPT ![h].v = visitors[ip]]
                /\ UNCHANGED <<visitors, heap, cleanupTimer>>
           ELSE /\ heap' = Append(heap, [closed |-> FALSE, len |-> 0,
                                         lastSeen |-> minute])
                /\ visitors' = visitors @@ (ip :> id)
                /\ hreq' = [hreq EXCEPT ![h].v = id]
                /\ cleanupTimer' = IF Cardinality(DOMAIN visitors') = 1
                                   THEN scheduleCleanup
                                   ELSE cleanupTimer
    /\ hpc' = [hpc EXCEPT ![h] = "send"]
    /\ UNCHANGED <<logState, rlLogger, minute, releases, requests, debugs>>

\* Middleware, lines 98-99 and 116-130, no lock held: the select sends on the
\* channel of the visitor the handler holds. A send on a closed channel
\* panics, in a select too; a full channel takes the default case, which
\* answers 429.
Send(h) ==
    /\ hpc[h] = "send"
    /\ LET v == hreq[h].v
       IN  IF heap[v].closed
           THEN /\ hpc' = [hpc EXCEPT ![h] = "panic"]
                /\ UNCHANGED <<heap, hreq>>
           ELSE IF heap[v].len < limit
           THEN /\ heap' = [heap EXCEPT ![v].len = @ + 1]
                /\ hpc' = [hpc EXCEPT ![h] = "serve"]
                /\ UNCHANGED hreq
           ELSE /\ hpc' = [hpc EXCEPT ![h] = "idle"]
                /\ hreq' = [hreq EXCEPT ![h] = NoReq]
                /\ UNCHANGED heap
    /\ UNCHANGED <<logState, visitors, cleanupTimer, rlLogger, minute,
                   releases, requests, debugs>>

\* Middleware, lines 100-108: the request is served and the release of its
\* slot is scheduled rl.rate from now.
Serve(h) ==
    /\ hpc[h] = "serve"
    /\ releases' = releases (+) SetToBag({[v |-> hreq[h].v,
                                           due |-> minute + rate]})
    /\ hpc' = [hpc EXCEPT ![h] = "touch"]
    /\ UNCHANGED <<logState, visitors, cleanupTimer, rlLogger, heap, minute,
                   hreq, requests, debugs>>

\* Middleware, lines 110-114, with rl.mu held throughout: lastSeen of the
\* entry the map holds now for the address.
Touch(h) ==
    /\ hpc[h] = "touch"
    /\ heap' = IF hreq[h].ip \in DOMAIN visitors
               THEN [heap EXCEPT ![visitors[hreq[h].ip]].lastSeen = minute]
               ELSE heap
    /\ hpc' = [hpc EXCEPT ![h] = "idle"]
    /\ hreq' = [hreq EXCEPT ![h] = NoReq]
    /\ UNCHANGED <<logState, visitors, cleanupTimer, rlLogger, minute,
                   releases, requests, debugs>>

\* Middleware, lines 102-108, the callback: one slot is received from the
\* channel when it holds one; an empty channel, open or closed, is left as
\* it is.
Release(e) ==
    /\ e \in BagToSet(releases) /\ minute >= e.due
    /\ releases' = releases (-) SetToBag({e})
    /\ heap' = IF heap[e.v].len > 0 THEN [heap EXCEPT ![e.v].len = @ - 1]
               ELSE heap
    /\ UNCHANGED <<logState, visitors, cleanupTimer, rlLogger, minute, hpc,
                   hreq, requests, debugs>>

MinuteTick ==
    /\ minute < MaxMinutes
    /\ minute' = minute + 1
    /\ UNCHANGED <<logState, visitors, cleanupTimer, rlLogger, heap, hpc, hreq,
                   releases, requests, debugs>>

(* ------------------------------- clock -------------------------------- *)

Tick ==
    /\ now < MaxTime
    /\ now' = now + 1
    /\ UNCHANGED <<file, currentSize, currentDate, dailyTimer, mu, env, fs, pc,
                   msg, ret, timer, tasks, hist, rotSeq, lastBackup, aux>>

(* ------------------------- construction (NewLogger) ------------------- *)

\* The state NewLogger leaves: the active file open, size and date read from
\* it, the first sweep started and, in daily mode, the scheduler started.
InitLogger(dir) ==
    /\ now = 0
    /\ fs = dir @@ (LogPath :> [content |-> <<>>, mtime |-> 0])
    /\ file = "open"
    /\ currentSize = F32(FileSize(fs[LogPath]))
    /\ currentDate = IF FileSize(fs[LogPath]) > 0 THEN UTCDay(fs[LogPath].mtime)
                     ELSE UTCDay(0)
    /\ dailyTimer = "nil"
    /\ mu = Free
    /\ timer = [target |-> 0, stopped |-> FALSE]
    /\ pc = [p \in Callers \cup {Sched} |->
               IF p = Sched THEN (IF rotateDaily THEN "s_arm" ELSE "s_off")
               ELSE "idle"]
    /\ msg = [p \in Callers |-> NoMsg]
    /\ ret = [p \in Callers \cup {Sched} |-> "idle"]
    /\ tasks = SetToBag({SweepTask})
    /\ calls = 0
    /\ nextId = 1
    /\ landed = {}
    /\ dropped = {}
    /\ rotSeq = 0
    /\ closedAt = 0
    /\ swept = {}
    /\ sweptPaths = {}
    /\ lastBackup = NoPath
    /\ closeErr = "none"
    /\ emptyRot = {}
    /\ failedAt = 0
    /\ rotDay = -1
    /\ NewRateLimiter

EmptyDir == [q \in {} |-> 0]

Init ==
    /\ maxSize = 2
    /\ maxBackups = 1
    /\ maxAge = 1
    /\ compress = FALSE
    /\ rotateDaily \in BOOLEAN
    /\ tz \in {0, 1}
    /\ budget = MaxCalls
    /\ InitLogger(EmptyDir)

Next ==
    \/ \E c \in Callers : \E n \in 1..MaxLen : CallWrite(c, n)
    \/ \E c \in Callers : WriteCheck(c)
    \/ \E c \in Callers : WriteAppend(c)
    \/ \E c \in Callers : CallRotate(c)
    \/ \E c \in Callers : Close(c)
    \/ \E c \in Callers : \E n \in 1..MaxLen : CallPrintf(c, n)
    \/ \E c \in Callers : Printf(c)
    \/ \E p \in Callers \cup {Sched} : RotateLock(p)
    \/ \E p \in Callers \cup {Sched} : RotateRename(p)
    \/ \E p \in Callers \cup {Sched} : RotateReopen(p)
    \/ SchedArm
    \/ SchedFire
    \/ SchedCheck
    \/ Tick

Spec == Init /\ [][Next]_vars

\* The same, with the system calls of rotate allowed to fail.
NextFault ==
    \/ Next
    \/ \E p \in Callers \cup {Sched} : RotateRenameFail(p)
    \/ \E p \in Callers \cup {Sched} : RotateReopenFail(p)

SpecFault == Init /\ [][NextFault]_vars

(* ---- writers, Rotate callers, Close and the scheduler, no faults ----- *)

InitRotate ==
    /\ maxSize = 2
    /\ maxBackups = 1
    /\ maxAge = 1
    /\ compress = FALSE
    /\ rotateDaily \in BOOLEAN
    /\ tz \in {0, 1}
    /\ budget = MaxCalls - 1
    /\ InitLogger(EmptyDir)

NextRotate ==
    \/ \E c \in Callers : \E n \in 1..MaxLen : CallWrite(c, n)
    \/ \E c \in Callers : WriteCheck(c)
    \/ \E c \in Callers : WriteAppend(c)
    \/ \E c \in Callers : CallRotate(c)
    \/ \E c \in Callers : Close(c)
    \/ \E p \in Callers \cup {Sched} : RotateLock(p)
    \/ \E p \in Callers \cup {Sched} : RotateRename(p)
    \/ \E p \in Callers \cup {Sched} : RotateReopen(p)
    \/ SchedArm
    \/ SchedFire
    \/ SchedCheck
    \/ Tick

SpecRotate == InitRotate /\ [][NextRotate]_vars

(* ------ daily mode: the scheduler, one writer and Close, scheduled ---- *)
(* ------ fairly                                                    ---- *)

InitDaily ==
    /\ maxSize = 2
    /\ maxBackups = 1
    /\ maxAge = 1
    /\ compress = FALSE
    /\ rotateDaily = TRUE
    /\ tz \in {0, 1}
    /\ budget = MaxCalls - 1
    /\ InitLogger(EmptyDir)

NextDaily ==
    \/ \E n \in 1..MaxLen : CallWrite("c1", n)
    \/ WriteCheck("c1")
    \/ WriteAppend("c1")
    \/ Close("c2")
    \/ \E p \in {"c1", Sched} : RotateLock(p)
    \/ \E p \in {"c1", Sched} : RotateRename(p)
    \/ \E p \in {"c1", Sched} : RotateReopen(p)
    \/ SchedArm
    \/ SchedFire
    \/ SchedCheck
    \/ Tick

\* Every goroutine that can take a step is eventually run, and a goroutine
\* waiting for l.mu gets it once it stays free; whether callers call, and how
\* fast the clock runs, is left open.
FairDaily ==
    /\ WF_vars(SchedArm) /\ WF_vars(SchedFire) /\ WF_vars(SchedCheck)
    /\ WF_vars(WriteCheck("c1")) /\ WF_vars(WriteAppend("c1"))
    /\ \A p \in {"c1", Sched} :
          /\ WF_vars(RotateLock(p))
          /\ WF_vars(RotateRename(p))
          /\ WF_vars(RotateReopen(p))

SpecDaily == InitDaily /\ [][NextDaily]_vars /\ FairDaily

(* ------- writers, with one reopen in rotate failing transiently ------ *)

InitHeal ==
    /\ maxSize \in {1, 2}
    /\ maxBackups = 1
    /\ maxAge = 1
    /\ compress = FALSE
    /\ rotateDaily = FALSE
    /\ tz = 0
    /\ budget = MaxCalls
    /\ InitLogger(EmptyDir)

\* os.OpenFile fails once and can succeed from then on; os.Rename fails when,
\* and only when, there is no file at logPath.
NextHeal ==
    \/ \E c \in Callers : \E n \in 1..MaxLen : CallWrite(c, n)
    \/ \E c \in Callers : WriteCheck(c)
    \/ \E c \in Callers : WriteAppend(c)
    \/ \E c \in Callers : RotateLock(c)
    \/ \E c \in Callers : RotateRename(c)
    \/ \E c \in Callers : RotateReopen(c)
    \/ \E c \in Callers : failedAt = 0 /\ RotateReopenFail(c)
    \/ \E c \in Callers : ~Exists(LogPath) /\ RotateRenameFail(c)

SpecHeal == InitHeal /\ [][NextHeal]_vars

(* ------------- callers that only write and close, no faults ---------- *)

InitWrites ==
    /\ maxSize = 2
    /\ maxBackups = 1
    /\ maxAge = 1
    /\ compress = FALSE
    /\ rotateDaily = FALSE
    /\ tz = 0
    /\ budget = MaxCalls
    /\ InitLogger(EmptyDir)

NextWrites ==
    \/ \E c \in Callers : \E n \in 1..MaxLen : CallWrite(c, n)
    \/ \E c \in Callers : WriteCheck(c)
    \/ \E c \in Callers : WriteAppend(c)
    \/ \E c \in Callers : Close(c)
    \/ \E c \in Callers : RotateLock(c)
    \/ \E c \in Callers : RotateRename(c)
    \/ \E c \in Callers : RotateReopen(c)

SpecWrites == InitWrites /\ [][NextWrites]_vars

\* Writers and Rotate callers, with the rename in rotate allowed to fail.
NextRenameFail ==
    \/ \E c \in Callers : \E n \in 1..MaxLen : CallWrite(c, n)
    \/ \E c \in Callers : WriteCheck(c)
    \/ \E c \in Callers : WriteAppend(c)
    \/ \E c \in Callers : CallRotate(c)
    \/ \E c \in Callers : RotateLock(c)
    \/ \E c \in Callers : RotateRename(c)
    \/ \E c \in Callers : RotateReopen(c)
    \/ \E c \in Callers : RotateRenameFail(c)

SpecRenameFail == InitWrites /\ [][NextRenameFail]_vars

(* --- one caller, with the compression and sweep goroutines running ---- *)

OldLine == [id |-> 0, len |-> 1, day |-> 0]
OldFile(t) == [content |-> <<OldLine>>, mtime |-> t]

\* Log directories left by earlier runs of the program.
InitDirs ==
    { EmptyDir,
      (BasePath(0) :> OldFile(-3)),
      (BasePath(0) :> OldFile(-3)) @@ (NumberedPath(0, 1) :> OldFile(-1)),
      (Gz(BasePath(0)) :> OldFile(-3)) @@ (NumberedPath(0, 1) :> OldFile(-1)) }

InitNaming ==
    /\ maxSize = 2
    /\ maxBackups = 1
    /\ maxAge = 1
    /\ compress \in BOOLEAN
    /\ rotateDaily = FALSE
    /\ tz = 0
    /\ budget = MaxCalls
    /\ \E dir \in InitDirs : InitLogger(dir)

\* The sweeps rotate starts have not run yet.
NextNaming ==
    \/ \E n \in 1..MaxLen : CallWrite("c1", n)
    \/ WriteCheck("c1")
    \/ WriteAppend("c1")
    \/ CallRotate("c1")
    \/ RotateLock("c1")
    \/ RotateRename("c1")
    \/ RotateReopen("c1")
    \/ \E t \in Running : CompressOpen(t)
    \/ \E t \in Running : CompressCreate(t)
    \/ \E t \in Running : CompressCopy(t)
    \/ \E t \in Running : CompressRemove(t)
    \/ Tick

SpecNaming == InitNaming /\ [][NextNaming]_vars

\* The same caller with a size limit below the longest message.
InitOversize ==
    /\ maxSize = MaxLen - 1
    /\ maxBackups = 1
    /\ maxAge = 1
    /\ compress \in BOOLEAN
    /\ rotateDaily = FALSE
    /\ tz = 0
    /\ budget = MaxCalls - 1
    /\ \E dir \in {EmptyDir, (BasePath(0) :> OldFile(-3))} : InitLogger(dir)

SpecOversize == InitOversize /\ [][NextNaming]_vars

InitRetention ==
    /\ maxSize = 2
    /\ maxBackups = 1
    /\ maxAge = 1
    /\ compress = TRUE
    /\ rotateDaily = FALSE
    /\ tz = 0
    /\ budget = MaxCalls - 1
    /\ \E dir \in {(LogPath :> OldFile(0)),
                   (LogPath :> OldFile(0)) @@ (BasePath(0) :> OldFile(-3))} :
          InitLogger(dir)

\* One caller forcing rotations, with every background goroutine running.
NextRetention ==
    \/ CallRotate("c1")
    \/ RotateLock("c1")
    \/ RotateRename("c1")
    \/ RotateReopen("c1")
    \/ \E t \in Running : CompressOpen(t)
    \/ \E t \in Running : CompressCreate(t)
    \/ \E t \in Running : CompressCopy(t)
    \/ \E t \in Running : CompressRemove(t)
    \/ \E t \in Running : SweepGlob(t)
    \/ \E t \in Running : SweepCount(t)
    \/ \E t \in Running : SweepAge(t)
    \/ Tick

SpecRetention == InitRetention /\ [][NextRetention]_vars

(* ------------- one sweep over a directory left by earlier runs -------- *)

SweepPaths == {BasePath(0), Gz(BasePath(0)), NumberedPath(0, 1)}
SweepFiles == {[content |-> c, mtime |-> t] :
                  c \in {<<>>, <<OldLine>>}, t \in {-3, -1}}
SweepDirs == UNION {[S -> SweepFiles] : S \in SUBSET SweepPaths}

InitSweep ==
    /\ maxSize = 2
    /\ maxBackups \in {-1, 1, 2}
    /\ maxAge = 1
    /\ compress = TRUE
    /\ rotateDaily = FALSE
    /\ tz = 0
    /\ budget = 0
    /\ \E dir \in SweepDirs : InitLogger(dir)

NextSweep ==
    \/ \E t \in Running : SweepGlob(t)
    \/ \E t \in Running : SweepCount(t)
    \/ \E t \in Running : SweepAge(t)
    \/ Tick

SpecSweep == InitSweep /\ [][NextSweep]_vars

(* ----- rotation of an active file left by an earlier run, daily mode ---- *)

MaxLines == 2

\* Lines an earlier run can have left: stamped with a day, without a time
\* prefix, and longer than the scanner's buffer.
StampedLine(d) == [id |-> 0, len |-> 1, day |-> d]
PlainLine == [id |-> 0, len |-> 1, day |-> NoDate]
LongLine == [id |-> 0, len |-> maxScanTokenSize, day |-> NoDate]
LineKinds == {StampedLine(0), StampedLine(1), PlainLine, LongLine}

SeqsUpTo(S, n) == UNION {[1..k -> S] : k \in 0..n}

\* The active file starts with no line, maxLinesToCheck - 1 or maxLinesToCheck
\* plain lines, followed by up to MaxLines lines of any kind.
InferContents ==
    {[i \in 1..k |-> PlainLine] \o tail :
        k \in {0, maxLinesToCheck - 1, maxLinesToCheck},
        tail \in SeqsUpTo(LineKinds, MaxLines)}

InitInfer ==
    /\ maxSize = 2
    /\ maxBackups = 1
    /\ maxAge = 1
    /\ compress = FALSE
    /\ rotateDaily = TRUE
    /\ tz = 0
    /\ budget = 1
    /\ \E c \in InferContents :
          InitLogger(LogPath :> [content |-> c, mtime |-> 0])

NextInfer ==
    \/ CallRotate("c1")
    \/ RotateLock("c1")
    \/ RotateRename("c1")
    \/ RotateReopen("c1")
    \/ Tick

SpecInfer == InitInfer /\ [][NextInfer]_vars

(* ---------- the due-predicate over sizes of a production logger -------- *)

\* maxSize is MaxSize * 1024 * 1024 (NewLogger).
MiB == 1048576
\* len("[INFO] boom"), a short message as write formats it.
ShortMessage == 11

MaxSizes == {-1 * MiB, 100 * MiB} \cup {2}
MsgLens == (1..MaxLen) \cup {ShortMessage}

\* A line that leaves the file eight bytes short of 100 MiB.
BigLine == [id |-> 0, len |-> 100 * MiB - 8 - LineOverhead, day |-> 0]

InitDue ==
    /\ maxSize \in MaxSizes
    /\ maxBackups = 1
    /\ maxAge = 1
    /\ compress = FALSE
    /\ rotateDaily \in BOOLEAN
    /\ tz = 0
    /\ budget = MaxCalls - 1
    /\ \E c \in {<<>>, <<OldLine>>, <<BigLine>>} : \E t \in {-1, 0} :
          InitLogger(LogPath :> [content |-> c, mtime |-> t])

NextDue ==
    \/ \E n \in MsgLens : CallWrite("c1", n)
    \/ WriteCheck("c1")
    \/ WriteAppend("c1")
    \/ Close("c1")
    \/ RotateLock("c1")
    \/ RotateRename("c1")
    \/ RotateReopen("c1")
    \/ Tick

SpecDue == InitDue /\ [][NextDue]_vars

(* -- forced rotations with compression and retention, fairly scheduled -- *)

InitCompress ==
    /\ maxSize = 2
    /\ maxBackups = 1
    /\ maxAge = 1
    /\ compress = TRUE
    /\ rotateDaily = FALSE
    /\ tz = 0
    /\ budget = 1
    /\ \E t \in {-3, 0} : InitLogger(LogPath :> OldFile(t))

\* Every goroutine that can take a step is eventually scheduled.
FairCompress ==
    /\ WF_vars(RotateLock("c1")) /\ WF_vars(RotateRename("c1"))
    /\ WF_vars(RotateReopen("c1"))
    /\ WF_vars(\E t \in Running : CompressOpen(t))
    /\ WF_vars(\E t \in Running : CompressCreate(t))
    /\ WF_vars(\E t \in Running : CompressCopy(t))
    /\ WF_vars(\E t \in Running : CompressRemove(t))
    /\ WF_vars(\E t \in Running : SweepGlob(t))
    /\ WF_vars(\E t \in Running : SweepCount(t))
    /\ WF_vars(\E t \in Running : SweepAge(t))

SpecCompress == InitCompress /\ [][NextRetention]_vars /\ FairCompress

(* ------- one caller, with compressions that can fail at any stage ------ *)

InitCompressFault ==
    /\ maxSize = 2
    /\ maxBackups = 1
    /\ maxAge = 1
    /\ compress = TRUE
    /\ rotateDaily = FALSE
    /\ tz = 0
    /\ budget = MaxCalls
    /\ \E dir \in InitDirs : InitLogger(dir)

NextCompressFault ==
    \/ NextNaming
    \/ \E t \in Running : CompressFail(t)

SpecCompressFault == InitCompressFault /\ [][NextCompressFault]_vars

(* ---- every operation that takes l.mu, with faults, fairly scheduled ---- *)

InitLock ==
    /\ maxSize = 2
    /\ maxBackups = 1
    /\ maxAge = 1
    /\ compress = FALSE
    /\ rotateDaily = TRUE
    /\ tz = 0
    /\ budget = 2
    /\ InitLogger(EmptyDir)

NextLock ==
    \/ \E c \in Callers : CallWrite(c, MaxLen)
    \/ \E c \in Callers : WriteCheck(c)
    \/ \E c \in Callers : WriteAppend(c)
    \/ \E c \in Callers : CallRotate(c)
    \/ \E c \in Callers : Close(c)
    \/ \E c \in Callers : \E op \in QueryOps : CallQuery(c, op)
    \/ \E c \in Callers : GetRotationInfo(c)
    \/ \E c \in Callers : CheckRotationStatus(c)
    \/ \E c \in Callers : GetBackupFiles(c)
    \/ \E p \in Callers \cup {Sched} : RotateLock(p)
    \/ \E p \in Callers \cup {Sched} : RotateRename(p)
    \/ \E p \in Callers \cup {Sched} : RotateReopen(p)
    \/ \E p \in Callers \cup {Sched} : RotateRenameFail(p)
    \/ \E p \in Callers \cup {Sched} : RotateReopenFail(p)
    \/ SchedArm
    \/ SchedFire
    \/ SchedCheck
    \/ Tick

\* A goroutine that can take its next step, or that waits in l.mu.Lock()
\* while the mutex stays free, eventually runs. Nothing more is assumed of
\* the mutex (sync.Mutex in fact also serves a waiter that keeps losing).
FairLock ==
    /\ \A c \in Callers :
          /\ WF_vars(WriteCheck(c)) /\ WF_vars(WriteAppend(c))
          /\ WF_vars(GetRotationInfo(c)) /\ WF_vars(CheckRotationStatus(c))
          /\ WF_vars(GetBackupFiles(c))
    /\ WF_vars(SchedArm) /\ WF_vars(SchedCheck) /\ WF_vars(SchedFire)
    /\ \A p \in Callers \cup {Sched} :
          /\ WF_vars(RotateLock(p))
          /\ WF_vars(RotateRename(p) \/ RotateRenameFail(p))
          /\ WF_vars(RotateReopen(p) \/ RotateReopenFail(p))

SpecLock == InitLock /\ [][NextLock]_vars /\ FairLock

(* ---- writes and rotations with the compressions and sweeps they start -- *)

InitHousekeeping ==
    /\ maxSize = 2
    /\ maxBackups = 1
    /\ maxAge = 1
    /\ compress = TRUE
    /\ rotateDaily = FALSE
    /\ tz = 0
    /\ budget = 1
    /\ \E dir \in {(LogPath :> OldFile(-3)),
                   (LogPath :> OldFile(0)) @@ (BasePath(0) :> OldFile(-3))} :
          InitLogger(dir)

NextHousekeeping ==
    \/ CallWrite("c1", MaxLen)
    \/ WriteCheck("c1")
    \/ WriteAppend("c1")
    \/ NextRetention

SpecHousekeeping == InitHousekeeping /\ [][NextHousekeeping]_vars

(* ------ one writer in daily mode, with renames that fail in rotate ----- *)

\* The log file found at start is empty or not, last modified today or
\* yesterday.
InitRetry ==
    /\ maxSize = 2
    /\ maxBackups = 1
    /\ maxAge = 1
    /\ compress = FALSE
    /\ rotateDaily \in BOOLEAN
    /\ tz = 0
    /\ budget = MaxCalls - 1
    /\ \E c \in {<<>>, <<OldLine>>} : \E t \in {-1, 0} :
          InitLogger(LogPath :> [content |-> c, mtime |-> t])

NextRetry ==
    \/ \E n \in 1..MaxLen : CallWrite("c1", n)
    \/ WriteCheck("c1")
    \/ WriteAppend("c1")
    \/ RotateLock("c1")
    \/ RotateRename("c1")
    \/ RotateReopen("c1")
    \/ RotateRenameFail("c1")
    \/ Tick

SpecRetry == InitRetry /\ [][NextRetry]_vars

(* ------- requests of two addresses, the cleanup timer and the clock ----- *)

InitLimiter ==
    /\ maxSize = 2
    /\ maxBackups = 1
    /\ maxAge = 1
    /\ compress = FALSE
    /\ rotateDaily = FALSE
    /\ tz = 0
    /\ budget = 0
    /\ InitLogger(EmptyDir)

NextLimiter ==
    \/ \E h \in Handlers : \/ \E ip \in IPs : Request(h, ip)
                           \/ Lookup(h)
                           \/ Insert(h)
                           \/ Send(h)
                           \/ Serve(h)
                           \/ Touch(h)
    \/ \E e \in BagToSet(releases) : Release(e)
    \/ SetLogger
    \/ cleanup
    \/ MinuteTick

SpecLimiter == InitLimiter /\ [][NextLimiter]_vars

(* ------------------------------ properties ---------------------------- *)

\* C1: with size rotation on and daily mode off, a write rotates only when
\* currentSize + len(message) > maxSize, and a write for which that holds is
\* not appended before its rotation: a writer inside the rotation it triggered
\* sees the size exceeded, and a writer about to append sees it not exceeded.
SizeRotationExactlyWhenDue ==
    \A c \in Callers :
        /\ (pc[c] = "r_rename" /\ ret[c] = "w_append")
              => currentSize + msg[c].len > maxSize
        /\ (pc[c] = "w_append" /\ mu = Free)
              => currentSize + msg[c].len <= maxSize

\* C2: as long as no sweep has run, every message that was written to a file
\* is held by exactly one file of the log directory (a backup and its .gz
\* sibling counting as one): no rotation loses or duplicates content.
ContentPreserved ==
    \A id \in landed :
        LET holders == {p \in DOMAIN fs :
                           \E i \in 1..Len(fs[p].content) :
                               fs[p].content[i].id = id}
        IN  /\ holders # {}
            /\ \A p, q \in holders : Gz(p) = Gz(q)

\* C3: no write's append step can run while the logger is half rotated (the
\* old handle closed and cleared, the new file not yet open): a writer that
\* waits to append in such a state finds the mutex held.
AppendNeverHalfRotated ==
    \A c \in Callers : (pc[c] = "w_append" /\ file = "nil") => mu # Free

\* A writer waits to append while another goroutine is in the middle of rotate.
AppendWaitsForRotation ==
    \E c \in Callers : \E p \in (Callers \cup {Sched}) \ {c} :
        /\ pc[c] = "w_append"
        /\ pc[p] \in {"r_rename", "r_reopen"}
        /\ file = "nil"

\* C4: when the rotation a write triggered has failed, the write proceeds and
\* appends its message to an open sink.
FailedRotationWriteLands ==
    \A c \in Callers :
        (pc[c] = "w_append" /\ msg[c].err /\ mu = Free) => file = "open"

\* C5: no goroutine reads the embedded writer without the mutex while another
\* goroutine is inside rotate, which replaces that writer on reopen.
LockDiscipline ==
    \A c \in Callers : \A p \in (Callers \cup {Sched}) \ {c} :
        ~(pc[c] = "printf" /\ pc[p] \in {"r_rename", "r_reopen"})

\* C6: with maxBackups = N > 0, once every rotation and every goroutine it
\* started has finished, at most N files matching <name>-* remain.
AtMostMaxBackupsRemain ==
    (tasks = EmptyBag /\ pc["c1"] = "idle" /\ maxBackups > 0)
        => Cardinality(Backups) <= maxBackups

\* C7: with maxAge = D > 0, when a sweep completes, no rotated file (a match of
\* <name>-* other than an empty .gz) modified before now - D days remains,
\* whatever maxBackups is.
SweepLeavesNoOldBackup ==
    [][\A t \in Running :
          (SweepAge(t) /\ maxAge > 0) =>
              \A p \in DOMAIN fs' :
                  (p.k # "log" /\ ~(p.gz /\ FileSize(fs'[p]) = 0))
                      => fs'[p].mtime >= now' - maxAge * DayLen]_vars

\* A sweep has completed and its age pass removed a file.
SweepRemovedByAge ==
    tasks = EmptyBag /\ "age" \in swept

\* C8: in every state of the log directory and for every date, no plain file,
\* and with compression no .gz either, exists at the path getBackupPath
\* returns.
BackupPathIsFree ==
    \A d \in 0..(MaxTime \div DayLen) :
        ~fileExists(fs, getBackupPath(fs, now, d))

\* C9: two successive rotations never rename onto the same destination: the
\* path getBackupPath gives a rotation differs from the path of the rotation
\* before it.
SuccessiveBackupPathsDiffer ==
    pc["c1"] = "r_rename"
        => getBackupPath(fs, now, rotateTimestamp) # lastBackup

\* C10: the writes issued after Close all have the same outcome: it is never
\* the case that one of them reached a file and another one was dropped.
WritesAfterCloseConsistent ==
    closedAt > 0 =>
        ~(/\ \E i \in landed : i >= closedAt
          /\ \E j \in dropped : j >= closedAt)

\* C11: Close is idempotent: a second Close on a closed logger has the outcome
\* of the first, so no Close returns an error.
CloseIdempotent ==
    closeErr # "error"

\* C12: in daily mode, a write checked while currentDate is yesterday rotates
\* whatever currentSize is; when the rotation it triggered completes,
\* currentDate is today; and a later write checked on that day, the size
\* limit not being exceeded, does not rotate.
DateRotationOncePerDay ==
    [][\A c \in Callers :
          /\ (WriteCheck(c) /\ rotateDaily /\ currentDate = UTCDay(now) - 1)
                => pc'[c] = "r_lock"
          /\ (RotateReopen(c) /\ rotateDaily /\ ret[c] = "w_append")
                => currentDate' = UTCDay(now)
          /\ (/\ WriteCheck(c) /\ rotateDaily /\ rotSeq > 0
              /\ currentDate = UTCDay(now)
              /\ currentSize + msg[c].len <= maxSize)
                => pc'[c] = "w_append"]_vars

\* The first write of a run, issued after the day changed with nothing in the
\* file, has rotated and is about to append on the new day.
DateRotationDone ==
    \E c \in Callers :
        /\ rotateDaily /\ pc[c] = "w_append" /\ ret[c] = "w_append"
        /\ msg[c].id = 1 /\ msg[c].len <= maxSize
        /\ landed = {} /\ dropped = {} /\ calls = 1
        /\ now >= DayLen /\ currentDate = UTCDay(now)

\* C13: a single message longer than maxSize written to an empty active log
\* rotates (the empty file is renamed to a backup) before it is appended, it
\* lands alone in the new active file, and currentSize is then its length.
OversizeWriteRotatesOnce ==
    [][/\ (/\ WriteCheck("c1") /\ msg["c1"].len > maxSize
           /\ currentSize = 0 /\ FileSize(fs[LogPath]) = 0)
             => pc'["c1"] = "r_lock"
       /\ (/\ WriteAppend("c1") /\ msg["c1"].len > maxSize
           /\ lastBackup \in emptyRot)
             => /\ Len(fs'[LogPath].content) = 1
                /\ fs'[LogPath].content[1].id = msg["c1"].id
                /\ currentSize' = msg["c1"].len
                /\ fileExists(fs', lastBackup)]_vars

\* The first call of a run wrote a message longer than maxSize: one rename was
\* done and the message is the only line of the active file.
OversizeWriteLanded ==
    /\ calls = 1 /\ pc["c1"] = "idle" /\ rotSeq = 1
    /\ landed = {1} /\ currentSize > maxSize
    /\ Len(fs[LogPath].content) = 1

\* C14: with compression enabled, a backup made by rotating a 0-byte active
\* file stays in place as a 0-byte file and gets no .gz sibling.
EmptyBackupLeftUncompressed ==
    compress =>
        \A p \in emptyRot :
            /\ p \in DOMAIN fs
            /\ FileSize(fs[p]) = 0
            /\ Gz(p) \notin DOMAIN fs

\* C15: after a reopen in rotate has failed, the logger heals once the path
\* can be opened again: of the writes issued after the failure, at most the
\* first one (the retry) is lost, the later ones reach the active file.
WritesAfterReopenFailureLand ==
    failedAt > 0 => \A id \in dropped : id <= failedAt

\* C16: a rotate whose rename fails is aborted: it creates no backup, starts
\* no compression or sweep, leaves the handle closed and nil and hands the
\* error to the write that called it; and the next write attempt, finding the
\* handle nil, goes into rotate to reopen the active file.
RenameFailureAbortsAndRetries ==
    [][\A c \in Callers :
          /\ RotateRenameFail(c) =>
                /\ fs' = fs /\ tasks' = tasks /\ file' = "nil"
                /\ ret[c] = "w_append" => msg'[c].err
          /\ (WriteCheck(c) /\ file = "nil") => pc'[c] = "r_lock"]_vars

\* C17: in daily mode, with the logger not closed, a local midnight that
\* passes while the scheduler waits on its timer is eventually followed by
\* the scheduler running rotate, writes or no writes, and the scheduler then
\* arms a timer for the following midnight.
MidnightEventuallyRotates ==
    /\ (pc[Sched] = "s_wait" /\ ~timer.stopped /\ LocalDay(now) >= timer.target)
          ~> (pc[Sched] = "r_reopen" \/ closedAt > 0)
    /\ (pc[Sched] = "r_reopen")
          ~> (pc[Sched] = "s_wait" /\ timer.target = LocalDay(now) + 1)

\* With no call ever made, the scheduler has rotated at a midnight and waits
\* on the timer it armed for the next one.
SchedulerRotatedAndRearmed ==
    /\ calls = 0 /\ rotSeq >= 1
    /\ pc[Sched] = "s_wait" /\ ~timer.stopped /\ timer.target >= 2

\* C18: the scheduler loop ends exactly when Close has cleared the timer: it
\* never exits while the logger is open, and once Close has returned it
\* eventually exits (unless it waits on a timer that can still fire).
SchedulerExitsAfterClose ==
    /\ [](pc[Sched] = "s_exit" => closedAt > 0)
    /\ (closedAt > 0)
          ~> (pc[Sched] = "s_exit" \/ (pc[Sched] = "s_wait" /\ ~timer.stopped))

\* C19: the date a rotation in daily mode names the backup with is read from
\* the first maxLinesToCheck lines of the active file: the day of the last
\* line there that carries a timestamp, lines without one being skipped and
\* later lines ignored; with no such line it is today's date.
WindowOfActiveFile ==
    LET all == fs[LogPath].content
    IN  SubSeq(all, 1, Min(maxLinesToCheck, Len(all)))

LastStampedDay(lines) ==
    LET at == {i \in 1..Len(lines) : lines[i].day # NoDate}
    IN  IF at = {} THEN NoDate
        ELSE lines[CHOOSE i \in at : \A j \in at : j <= i].day

ContentDateFromFirstLines ==
    [][RotateRename("c1") =>
          lastBackup'.d = IF LastStampedDay(WindowOfActiveFile) = NoDate
                          THEN LocalDay(now)
                          ELSE LastStampedDay(WindowOfActiveFile)]_vars

\* C20: needsRotation(m) is true exactly when maxSize > 0 and
\* currentSize + m > maxSize, or daily mode is on and today is not
\* currentDate, or daily mode is on and the open file was last modified on
\* another day than today; the check changes nothing of the logger.
DueByDefinition(m) ==
    \/ maxSize > 0 /\ currentSize + m > maxSize
    \/ rotateDaily /\ UTCDay(now) # currentDate
    \/ /\ rotateDaily
       /\ file = "open"
       /\ Exists(LogPath)
       /\ UTCDay(fs[LogPath].mtime) # UTCDay(now)

DueExactlyWhenSizeOrDate ==
    [][WriteCheck("c1") =>
          /\ (pc'["c1"] = "r_lock") <=> DueByDefinition(msg["c1"].len)
          /\ UNCHANGED <<file, currentSize, currentDate, dailyTimer, mu, env,
                         fs>>]_vars

\* The backup paths the rotations of SpecCompress can produce.
RotatedPaths ==
    UNION {{BasePath(t \div DayLen), NumberedPath(t \div DayLen, 1),
            [k |-> "ts", d |-> t \div DayLen, n |-> t, gz |-> FALSE]} :
              t \in 0..MaxTime}

\* rotate has just renamed the non-empty active file to p.
JustRotated(p) ==
    /\ compress
    /\ pc["c1"] = "r_reopen"
    /\ lastBackup = p
    /\ p \in DOMAIN fs
    /\ FileSize(fs[p]) > 0

ReplacedByGz(p) == Gz(p) \in DOMAIN fs /\ p \notin DOMAIN fs

\* C21 as stated: with compression on, rotate starts the compression and goes
\* on without waiting for it, and every non-empty rotated file is eventually
\* replaced by its .gz sibling.
EveryBackupEventuallyCompressed ==
    /\ [][RotateRename("c1") =>
             /\ CompressTask(lastBackup') \in BagToSet(tasks')
             /\ pc'["c1"] = "r_reopen"]_vars
    /\ \A p \in RotatedPaths : JustRotated(p) ~> ReplacedByGz(p)

\* C21, amended: ... unless the retention sweeper removes the rotated file or
\* its .gz sibling first.
BackupCompressedUnlessSwept ==
    /\ [][RotateRename("c1") =>
             /\ CompressTask(lastBackup') \in BagToSet(tasks')
             /\ pc'["c1"] = "r_reopen"]_vars
    /\ \A p \in RotatedPaths :
          JustRotated(p) ~> \/ ReplacedByGz(p)
                            \/ p \in sweptPaths
                            \/ Gz(p) \in sweptPaths

\* rotate has returned, and later the compression replaced its backup, which
\* no sweep touched.
CompressedAfterRotateReturned ==
    /\ pc["c1"] = "idle"
    /\ rotSeq = 1
    /\ ReplacedByGz(lastBackup)
    /\ fs[Gz(lastBackup)].content = <<OldLine>>
    /\ sweptPaths = {}
    /\ tasks = EmptyBag

\* C22: with maxSize > 0 and no message longer than maxSize, currentSize is at
\* most maxSize after every completed write, however the writers interleave.
SizeBoundAfterEveryWrite ==
    [][\A c \in Callers :
          (WriteAppend(c) /\ maxSize > 0 /\ msg[c].len <= maxSize)
             => currentSize' <= maxSize]_vars

\* C23: the compression worker removes the rotated file only when the .gz
\* sibling holds all of it: at the step that removes an existing original,
\* every line of the file removed is in the .gz; and a compression that
\* fails removes nothing.
OriginalRemovedOnlyWhenCompressed ==
    [][\A t \in Running :
          /\ (CompressRemove(t) /\ Exists(t.path))
                => \A i \in 1..Len(fs[t.path].content) :
                      /\ Exists(Gz(t.path))
                      /\ \E j \in 1..Len(fs[Gz(t.path)].content) :
                            fs[Gz(t.path)].content[j] = fs[t.path].content[i]
          /\ CompressFail(t) => fs' = fs]_vars

\* C24: once Close has returned, no write issued afterwards renames or
\* reopens the active log file: the handle stays closed.
NoRotationByWritesAfterClose ==
    [][\A c \in Callers :
          (closedAt > 0 /\ ret[c] = "w_append" /\ msg[c].id >= closedAt)
             => /\ ~RotateRename(c)
                /\ ~RotateReopen(c)
                /\ file' # "open"]_vars

\* C25: once Close has returned, dailyTimer stays nil and the scheduler
\* renames nothing, wherever the scheduler goroutine was when Close ran.
SchedulerQuietAfterClose ==
    [][closedAt > 0 => (dailyTimer' = "nil" /\ ~RotateRename(Sched))]_vars

\* A rename that the change of day caused: the scheduler's, or that of a
\* write whose message fits the size limit.
DateRename(p) ==
    /\ rotateDaily
    /\ RotateRename(p)
    /\ \/ p = Sched
       \/ /\ ret[p] = "w_append"
          /\ ~(maxSize > 0 /\ currentSize + msg[p].len > maxSize)

\* C26: in daily mode a change of calendar day causes at most one rotation:
\* no rotation caused by the change of day happens on a day on which the file
\* has already been rotated, whichever of the scheduler and the writers came
\* first.
OneRotationPerDayChange ==
    [][\A p \in {"c1", Sched} : DateRename(p) => rotDay # LocalDay(now)]_vars

\* C27: no operation asks for l.mu while it holds it (the holder is inside
\* rotate, past its Lock), every lock taken is released, also when rotate
\* returns an error, and every call returns.
NoDeadlock ==
    /\ [](\A p \in Callers \cup {Sched} :
             mu = p => pc[p] \in {"r_rename", "r_reopen"})
    /\ \A p \in Callers \cup {Sched} : (mu = p) ~> (mu = Free)
    /\ \A c \in Callers : (pc[c] # "idle") ~> (pc[c] = "idle")

\* A query waits in l.mu.Lock() while a write is inside rotate.
QueryWaitsForRotate ==
    /\ pc["c2"] \in QueryOps
    /\ mu = "c1"
    /\ pc["c1"] = "r_rename"
    /\ ret["c1"] = "w_append"

\* C28: the retention sweeper removes only matches of <name>-*: a step of a
\* sweep leaves the active log file as it is, whatever writes, rotations and
\* compressions run beside it.
SweepSparesActiveFile ==
    [][\A t \in Running :
          (SweepCount(t) \/ SweepAge(t))
             => /\ \A p \in DOMAIN fs \ DOMAIN fs' : p.k # "log"
                /\ Exists(LogPath)
                      => (LogPath \in DOMAIN fs' /\ fs'[LogPath] = fs[LogPath])
       ]_vars

\* A sweep removed a backup while the active file, written since, stayed.
SweptBesideActiveFile ==
    /\ sweptPaths # {}
    /\ landed # {}
    /\ Exists(LogPath)
    /\ FileSize(fs[LogPath]) > 0

\* C29: a rotate that fails at the rename changes neither currentSize nor
\* currentDate nor the directory and leaves the handle nil; the write that
\* follows such a failure (every rotation here is started by a write that was
\* due) is due again.
FailedRenameKeepsRotationDue ==
    [][/\ RotateRenameFail("c1")
             => /\ currentSize' = currentSize
                /\ currentDate' = currentDate
                /\ fs' = fs
                /\ file' = "nil"
       /\ (WriteCheck("c1") /\ file = "nil") => pc'["c1"] = "r_lock"]_vars

\* C30: no request handler ever sends on a limiter channel that cleanup has
\* closed, so no handler panics, in every interleaving of Middleware with
\* cleanup.
NoSendOnClosedChannel == \A h \in Handlers : hpc[h] # "panic"

====
